---- MODULE Spec2Model ----
(***************************************************************************)
(* Model of kara-felhun.py: the AutoTapper object, the argument handling   *)
(* of main(), the SIGINT handler and the dispatch loop of                  *)
(* AutoTapper.start().                                                     *)
(*                                                                         *)
(* Time: the wall clock `now` is a counter that may advance between any    *)
(* two steps of the program (Tick); every time.time() call reads it.       *)
(* Intervals are kept in units of 0.1 ms (0.008 s = 80).                   *)
(***************************************************************************)
EXTENDS Integers, Sequences, FiniteSets, TLC

\* ------------------------------------------------------------------ bounds
MaxGoal == 2
MaxClock == 2
MaxCycles == 3
MaxSignals == 1
\* LongSpec: the number of cycles of a long run and of its failed taps.
MaxLongCycles == 203
MaxLongFailures == 2

\* Python's None for the optional integers (x, y, duration, total_taps,
\* end_time); every real value of those in the model is >= 0.
None == -1

\* ------------------------------------------------------- input domains
\* --x / --y as parsed by argparse: omitted, 0, or a positive pixel.
XArgs == {None, 0, 500}
YArgs == {None, 900}
\* --interval in units of 0.1 ms (the default 0.008 and one other value).
IntervalArgs == {80, 120}
\* --jitter
JitterArgs == {0, 1}
\* --duration in seconds: omitted, 0 or 1.
DurationArgs == {None, 0, 1}
TotalTapsArgs == {None} \cup (1..MaxGoal)
\* The resolution <<width, height>> the device reports to "wm size".
Resolutions == {<<1080, 1920>>}

\* ------------------------------------------------------ arithmetic helpers
\* int(v) of a float quotient n/d: truncation toward zero.
PyInt(n, d) == IF n >= 0 THEN n \div d ELSE -((-n) \div d)

\* Python truthiness of an Optional[int]: None and 0 are false.
Truthy(v) == v # None /\ v # 0

\* math.cos / math.sin of math.radians(deg), scaled by TrigScale, for the
\* angles generate_tap_locations uses (multiples of 45, 30 and 22 degrees).
TrigScale == 10000

CosTab ==
  [a \in {0, 22, 30, 44, 45, 60, 66, 88, 90, 110, 120, 132, 135, 150, 154,
          176, 180, 198, 210, 220, 225, 240, 242, 264, 270, 286, 300, 308,
          315, 330, 352} |->
    CASE a = 0 -> 10000 [] a = 22 -> 9272 [] a = 30 -> 8660
      [] a = 44 -> 7193 [] a = 45 -> 7071 [] a = 60 -> 5000
      [] a = 66 -> 4067 [] a = 88 -> 349 [] a = 90 -> 0
      [] a = 110 -> -3420 [] a = 120 -> -5000 [] a = 132 -> -6691
      [] a = 135 -> -7071 [] a = 150 -> -8660 [] a = 154 -> -8988
      [] a = 176 -> -9976 [] a = 180 -> -10000 [] a = 198 -> -9511
      [] a = 210 -> -8660 [] a = 220 -> -7660 [] a = 225 -> -7071
      [] a = 240 -> -5000 [] a = 242 -> -4695 [] a = 264 -> -1045
      [] a = 270 -> 0 [] a = 286 -> 2756 [] a = 300 -> 5000
      [] a = 308 -> 6157 [] a = 315 -> 7071 [] a = 330 -> 8660
      [] a = 352 -> 9903]

SinTab ==
  [a \in DOMAIN CosTab |->
    CASE a = 0 -> 0 [] a = 22 -> 3746 [] a = 30 -> 5000
      [] a = 44 -> 6947 [] a = 45 -> 7071 [] a = 60 -> 8660
      [] a = 66 -> 9135 [] a = 88 -> 9994 [] a = 90 -> 10000
      [] a = 110 -> 9397 [] a = 120 -> 8660 [] a = 132 -> 7431
      [] a = 135 -> 7071 [] a = 150 -> 5000 [] a = 154 -> 4384
      [] a = 176 -> 698 [] a = 180 -> 0 [] a = 198 -> -3090
      [] a = 210 -> -5000 [] a = 220 -> -6428 [] a = 225 -> -7071
      [] a = 240 -> -8660 [] a = 242 -> -8829 [] a = 264 -> -9945
      [] a = 270 -> -10000 [] a = 286 -> -9613 [] a = 300 -> -8660
      [] a = 308 -> -7880 [] a = 315 -> -7071 [] a = 330 -> -5000
      [] a = 352 -> -1392]

\* range(0, 360, step) as a sequence of angles.
AngleRange(step) == [i \in 1..((359 \div step) + 1) |-> (i - 1) * step]

\* One polar point: (cx + int(r*cos), cy + int(r*sin), rate), where
\* r = radius * pct / 100.
PolarPoint(cx, cy, radius, pct, deg, rate) ==
  << cx + PyInt(radius * pct * CosTab[deg], 100 * TrigScale),
     cy + PyInt(radius * pct * SinTab[deg], 100 * TrigScale),
     rate >>

\* The values random.random() / random.uniform() can take for one infill
\* point, as <<percent of radius, angle>>: 0.1 + 0.8*u lies in [10%, 90%].
InfillSamples == {<<10, 0>>, <<50, 135>>, <<90, 270>>}

\* random.shuffle: the permutations the model draws from are the rotations
\* of the list by k places.
ShuffleChoices == {0, 1, 7}

Rotate(s, k) == [i \in 1..Len(s) |-> s[((i - 1 + k) % Len(s)) + 1]]

\* AutoTapper.generate_tap_locations: centre, inner/middle/outer rings,
\* strategic points, random infill, then the shuffle.
generate_tap_locations(screen_width, screen_height, infill, shuffle_k) ==
  LET center_x == screen_width \div 2
      center_y == PyInt(screen_height * 6, 10)
      radius   == PyInt(screen_height * 20, 100)
      Ring(pct, angles, rate) ==
        [i \in 1..Len(angles) |->
            PolarPoint(center_x, center_y, radius, pct, angles[i], rate)]
      center    == << <<center_x, center_y, 55>> >>
      inner     == Ring(40, AngleRange(45), 60)
      middle    == Ring(70, AngleRange(30), 70)
      outer     == Ring(100, AngleRange(22), 80)
      strategic == Ring(85, <<0, 90, 180, 270>>, 65)
      random    == [i \in 1..4 |->
                      PolarPoint(center_x, center_y, radius,
                                 infill[i][1], infill[i][2], 70)]
  IN Rotate(center \o inner \o middle \o outer \o strategic \o random,
            shuffle_k)

\* The nine-point layout of get_screen_resolution (lines 81-91).
NinePointPlan(base_x, base_y, screen_height) ==
  LET radius == PyInt(screen_height * 20, 100)
      diag   == PyInt(radius * 7, 10)
  IN << <<base_x, base_y, 80>>,
        <<base_x, base_y - radius, 90>>,
        <<base_x + radius, base_y, 80>>,
        <<base_x, base_y + radius, 90>>,
        <<base_x - radius, base_y, 80>>,
        <<base_x + diag, base_y + diag, 70>>,
        <<base_x + diag, base_y - diag, 70>>,
        <<base_x - diag, base_y + diag, 70>>,
        <<base_x - diag, base_y - diag, 70>> >>

\* ------------------------------------------------------------------ state
VARIABLES
  args,             \* argparse result of main()
  screen,           \* <<width, height>> the attached device reports
  pc,               \* position of the main thread
  now,              \* the wall clock read by time.time()
  x_coord, y_coord, \* locals of main()
  self,             \* the AutoTapper object
  handler,          \* TRUE once signal.signal(SIGINT, signal_handler) ran
  signals,          \* number of SIGINTs delivered so far
  end_time,         \* local of start()
  current_interval, \* local of start()
  cycles,           \* history: number of send_tap() calls of the run
  adb_cmd,          \* <<x, y>> of the "adb shell input tap" in flight, or None
  tap,              \* history: plan entry and result of the last tap
  prev_used,        \* history: plan index of the tap before the last one
  failures,         \* history: number of taps that failed
  last_delay,       \* history: argument of the last time.sleep()
  cancel_cycle,     \* history: value of cycles when SIGINT first hit the loop
  final_count,      \* history: executions of the finally block
  final_cycle,      \* history: value of cycles when the finally block ran
  dur_eval,         \* history: the last evaluation of the duration condition
  exit_reason,      \* history: how the while loop was left
  cursor_hist,      \* history: the cursor at the start of the last cycles
  stats_count,      \* history: number of display_stats() calls of the run
  startup_error,    \* history: the fatal startup error reported, or "none"
  fn_in,            \* FnSpec: the arguments of the last function applied
  fn_out            \* FnSpec: the value that function returned

vars == << args, screen, pc, now, x_coord, y_coord, self, handler, signals,
           end_time, current_interval, cycles, adb_cmd, tap, prev_used,
           failures, last_delay, cancel_cycle, final_count, final_cycle,
           dur_eval, exit_reason, cursor_hist, stats_count, startup_error,
           fn_in, fn_out >>

\* Positions inside start() after self.running = True and before the
\* finally block.
LoopPcs == {"end_time", "while", "fetch", "send_tap", "adb", "sleep",
            "goal_check",
            "duration_check"}

\* Positions at which the process has ended.
EndPcs == {"done", "exited", "returned"}

NoTap == [used |-> None, base_x |-> None, base_y |-> None, rate |-> None,
          ok |-> FALSE, stats |-> FALSE]

NoEval == [at |-> None, expired |-> FALSE]

\* AutoTapper.__init__, lines 30-42.
NewTapper(x, y, tap_interval, jitter, multi_tap, total_taps) ==
  [x |-> x, y |-> y, tap_interval |-> tap_interval, jitter |-> jitter,
   multi_tap |-> multi_tap, total_taps |-> total_taps, running |-> FALSE,
   tap_count |-> 0, start_time |-> None, tap_locations |-> << >>,
   current_location_index |-> 0, screen_width |-> 0, screen_height |-> 0]

\* AutoTapper.get_screen_resolution after a successful "wm size" query that
\* reported width x height.
get_screen_resolution(s, width, height, infill, shuffle_k) ==
  LET s1 == [s EXCEPT !.screen_width = width, !.screen_height = height,
                      !.x = IF s.x = None THEN width \div 2 ELSE s.x,
                      !.y = IF s.y = None THEN height \div 2 ELSE s.y]
      s2 == IF s1.multi_tap
              THEN [s1 EXCEPT !.tap_locations =
                      generate_tap_locations(s1.screen_width,
                                             s1.screen_height,
                                             infill, shuffle_k)]
              ELSE s1
  IN IF s2.x # None /\ s2.y # None /\ s2.multi_tap /\ s2.tap_locations # << >>
       THEN [s2 EXCEPT !.tap_locations =
               NinePointPlan(s2.x, s2.y, s2.screen_height)]
       ELSE s2

\* Variant of get_next_tap_location: the cursor wraps one entry early.
get_next_tap_location_WrapEarly(s) ==
  IF ~s.multi_tap \/ s.tap_locations = << >>
    THEN [x |-> s.x, y |-> s.y, rate |-> s.tap_interval, used |-> None,
          next |-> s.current_location_index]
    ELSE LET location == s.tap_locations[s.current_location_index + 1]
         IN [x |-> location[1], y |-> location[2], rate |-> location[3],
             used |-> s.current_location_index,
             next |-> IF s.current_location_index + 1
                           >= Len(s.tap_locations) - 1
                        THEN 0 ELSE s.current_location_index + 1]

\* AutoTapper.get_next_tap_location: the location returned, the plan index
\* it came from (None for the fixed point) and the cursor afterwards.
get_next_tap_location(s) ==
  IF ~s.multi_tap \/ s.tap_locations = << >>
    THEN [x |-> s.x, y |-> s.y, rate |-> s.tap_interval, used |-> None,
          next |-> s.current_location_index]
    ELSE LET location == s.tap_locations[s.current_location_index + 1]
         IN [x |-> location[1], y |-> location[2], rate |-> location[3],
             used |-> s.current_location_index,
             next |-> (s.current_location_index + 1) % Len(s.tap_locations)]

\* AutoTapper.check_adb_connection on the outcome of "adb devices":
\* raised CalledProcessError, or printed text that contains the word
\* "device" or not and has the given number of newlines.
check_adb_connection(raised, has_device, newlines) ==
  IF raised THEN FALSE
  ELSE IF ~has_device \/ newlines <= 1 THEN FALSE
  ELSE TRUE

\* Variant of CountAfterTap: the counter moved out of the try block, so a
\* failed tap is counted too.
CountAfterTap_Always(count, ok) == count + 1

\* The value tap_count has after a tap attempt (lines 190-205).
CountAfterTap(count, ok) == IF ok THEN count + 1 ELSE count

\* Variant of LoopCondition: "while True".
LoopCondition_Ignore(s) == TRUE

\* send_tap calls display_stats every StatsPeriod taps (line 201).
StatsPeriod == 200

\* Variant of StatsDue: the test of line 201 moved out of the try block, so
\* it also runs after a failed tap.
StatsDue_Unguarded(count, ok) == count % StatsPeriod = 0

\* Whether send_tap calls display_stats: the test of line 201 sits inside
\* the try block, after the increment, so it is reached only when the tap
\* succeeded; count is tap_count after the attempt.
StatsDue(count, ok) == ok /\ count % StatsPeriod = 0

\* A formatted time "<a><ua> <b><ub>", e.g. "1h 30m"; NoTimeStr when the
\* statistics line carries no estimate.
TimeStr(a, ua, b, ub) == [a |-> a, ua |-> ua, b |-> b, ub |-> ub]

NoTimeStr == TimeStr(None, "", None, "")

\* Variant of display_stats: ">=" for ">" at both bucket limits.
display_stats_Inclusive(tap_count, total_taps, elapsed) ==
  IF ~Truthy(total_taps)
    THEN [remaining |-> None, time_str |-> NoTimeStr]
    ELSE
      LET remaining_taps == IF total_taps - tap_count > 0
                              THEN total_taps - tap_count ELSE 0
          n == remaining_taps * elapsed
          d == tap_count
      IN IF ~(elapsed > 0 /\ tap_count > 0)
           THEN [remaining |-> remaining_taps, time_str |-> NoTimeStr]
         ELSE IF n >= 86400 * d
           THEN [remaining |-> remaining_taps,
                 time_str |-> TimeStr(n \div (86400 * d), "d",
                                      (n % (86400 * d)) \div (3600 * d), "h")]
         ELSE IF n >= 3600 * d
           THEN [remaining |-> remaining_taps,
                 time_str |-> TimeStr(n \div (3600 * d), "h",
                                      (n % (3600 * d)) \div (60 * d), "m")]
         ELSE [remaining |-> remaining_taps,
               time_str |-> TimeStr(n \div (60 * d), "m",
                                    (n % (60 * d)) \div d, "s")]

\* AutoTapper.display_stats, lines 209-237: the remaining taps and the
\* formatted estimate, for elapsed whole seconds. seconds_remaining is the
\* quotient n / d with n = remaining_taps * elapsed and d = tap_count, kept
\* exact; "//" on it is floor division and int() truncates.
display_stats(tap_count, total_taps, elapsed) ==
  IF ~Truthy(total_taps)
    THEN [remaining |-> None, time_str |-> NoTimeStr]
    ELSE
      LET remaining_taps == IF total_taps - tap_count > 0
                              THEN total_taps - tap_count ELSE 0
          n == remaining_taps * elapsed
          d == tap_count
      IN IF ~(elapsed > 0 /\ tap_count > 0)
           THEN [remaining |-> remaining_taps, time_str |-> NoTimeStr]
         ELSE IF n > 86400 * d
           THEN [remaining |-> remaining_taps,
                 time_str |-> TimeStr(n \div (86400 * d), "d",
                                      (n % (86400 * d)) \div (3600 * d), "h")]
         ELSE IF n > 3600 * d
           THEN [remaining |-> remaining_taps,
                 time_str |-> TimeStr(n \div (3600 * d), "h",
                                      (n % (3600 * d)) \div (60 * d), "m")]
         ELSE [remaining |-> remaining_taps,
               time_str |-> TimeStr(n \div (60 * d), "m",
                                    (n % (60 * d)) \div d, "s")]

\* The loop condition of line 282.
LoopCondition(s) == s.running

\* Variant of GoalReached: ">" for ">=".
GoalReached_Strict(s) == Truthy(s.total_taps) /\ s.tap_count > s.total_taps

\* The goal condition of line 296.
GoalReached(s) == Truthy(s.total_taps) /\ s.tap_count >= s.total_taps

\* Variant of DurationElapsed: ">" for ">=".
DurationElapsed_Strict(end, clock) == Truthy(end) /\ clock > end

\* The duration condition of line 301.
DurationElapsed(end, clock) == Truthy(end) /\ clock >= end

\* ------------------------------------------------------------------- Init
\* The state at the start of main() for a command line drawn from arg_set.
InitWith(arg_set) ==
  /\ args \in arg_set
  /\ screen \in Resolutions
  /\ pc = "main"
  /\ now = 1
  /\ x_coord = None /\ y_coord = None
  /\ self = NewTapper(None, None, 80, 10, TRUE, None)
  /\ handler = FALSE
  /\ signals = 0
  /\ end_time = None
  /\ current_interval = None
  /\ cycles = 0
  /\ adb_cmd = None
  /\ tap = NoTap
  /\ prev_used = None
  /\ failures = 0
  /\ last_delay = None
  /\ cancel_cycle = None
  /\ final_count = 0
  /\ final_cycle = None
  /\ dur_eval = NoEval
  /\ exit_reason = "none"
  /\ cursor_hist = << >>
  /\ stats_count = 0
  /\ startup_error = "none"
  /\ fn_in = [op |-> "none"]
  /\ fn_out = None

Init ==
  InitWith([x : XArgs, y : YArgs, interval : IntervalArgs,
            jitter : JitterArgs, duration : DurationArgs,
            total_taps : TotalTapsArgs, single_point : BOOLEAN,
            karaa : {TRUE}])

\* ---------------------------------------------------------------- actions
\* main(), lines 338-361: the calibrated preset.
MainCalibrate ==
  /\ pc = "main"
  /\ pc' = "construct"
  /\ IF args.karaa /\ ~Truthy(args.x) /\ ~Truthy(args.y)
       THEN \E query_ok \in BOOLEAN :
              IF query_ok
                THEN /\ x_coord' = screen[1] \div 2
                     /\ y_coord' = PyInt(screen[2] * 6, 10)
                ELSE /\ x_coord' = args.x
                     /\ y_coord' = args.y
       ELSE /\ x_coord' = args.x
            /\ y_coord' = args.y
  /\ UNCHANGED << args, screen, now, self, handler, signals, end_time,
                  current_interval, cycles, adb_cmd, tap, prev_used, failures,
                  last_delay, cancel_cycle, final_count, final_cycle,
                  dur_eval, exit_reason, cursor_hist, stats_count,
                  startup_error, fn_in, fn_out >>

\* Variant of Construct: a failed resolution query is reported but the
\* process goes on instead of calling sys.exit(1).
Construct_NoExit ==
  /\ pc = "construct"
  /\ LET s == NewTapper(x_coord, y_coord, args.interval, args.jitter,
                        ~args.single_point, args.total_taps)
     IN IF s.x = None \/ s.y = None
          THEN \E query_ok \in BOOLEAN :
                 IF query_ok
                   THEN \E infill \in [1..4 -> InfillSamples],
                           shuffle_k \in ShuffleChoices :
                          /\ self' = get_screen_resolution(s, screen[1],
                                        screen[2], infill, shuffle_k)
                          /\ pc' = "install"
                          /\ startup_error' = startup_error
                   ELSE /\ self' = s
                        /\ pc' = "install"
                        /\ startup_error' = "resolution"
          ELSE /\ self' = s
               /\ pc' = "install"
               /\ startup_error' = startup_error
  /\ UNCHANGED << args, screen, now, x_coord, y_coord, handler, signals,
                  end_time, current_interval, cycles, adb_cmd, tap, prev_used,
                  failures, last_delay, cancel_cycle, final_count,
                  final_cycle, dur_eval, exit_reason, cursor_hist,
                  stats_count, fn_in, fn_out >>

\* main(), lines 363-370, with AutoTapper.__init__ and, when a coordinate
\* is missing, get_screen_resolution (sys.exit(1) when the query fails).
Construct ==
  /\ pc = "construct"
  /\ LET s == NewTapper(x_coord, y_coord, args.interval, args.jitter,
                        ~args.single_point, args.total_taps)
     IN IF s.x = None \/ s.y = None
          THEN \E query_ok \in BOOLEAN :
                 IF query_ok
                   THEN \E infill \in [1..4 -> InfillSamples],
                           shuffle_k \in ShuffleChoices :
                          /\ self' = get_screen_resolution(s, screen[1],
                                        screen[2], infill, shuffle_k)
                          /\ pc' = "install"
                          /\ startup_error' = startup_error
                   ELSE /\ self' = s
                        /\ pc' = "exited"
                        /\ startup_error' = "resolution"
          ELSE /\ self' = s
               /\ pc' = "install"
               /\ startup_error' = startup_error
  /\ UNCHANGED << args, screen, now, x_coord, y_coord, handler, signals,
                  end_time, current_interval, cycles, adb_cmd, tap, prev_used,
                  failures, last_delay, cancel_cycle, final_count,
                  final_cycle, dur_eval, exit_reason, cursor_hist,
                  stats_count, fn_in, fn_out >>

\* main(), line 376.
InstallHandler ==
  /\ pc = "install"
  /\ handler' = TRUE
  /\ pc' = "start"
  /\ UNCHANGED << args, screen, now, x_coord, y_coord, self, signals,
                  end_time, current_interval, cycles, adb_cmd, tap, prev_used,
                  failures, last_delay, cancel_cycle, final_count,
                  final_cycle, dur_eval, exit_reason, cursor_hist,
                  stats_count, startup_error, fn_in, fn_out >>

\* Variant of StartCheck: the run state is initialised before the device
\* check instead of after it.
StartCheck_InitFirst ==
  /\ pc = "start"
  /\ self' = [self EXCEPT !.running = TRUE, !.tap_count = 0,
                          !.start_time = now]
  /\ \E raised \in BOOLEAN, has_device \in BOOLEAN, newlines \in 0..2 :
       IF check_adb_connection(raised, has_device, newlines)
         THEN /\ pc' = "end_time"
              /\ startup_error' = startup_error
         ELSE /\ pc' = "returned"
              /\ startup_error' = IF raised THEN "bridge" ELSE "device"
  /\ UNCHANGED << args, screen, now, x_coord, y_coord, handler, signals,
                  end_time, current_interval, cycles, adb_cmd, tap, prev_used,
                  failures, last_delay, cancel_cycle, final_count,
                  final_cycle, dur_eval, exit_reason, cursor_hist,
                  stats_count, fn_in, fn_out >>

\* start(), lines 261-266.
StartCheck ==
  /\ pc = "start"
  /\ \E raised \in BOOLEAN, has_device \in BOOLEAN, newlines \in 0..2 :
       IF check_adb_connection(raised, has_device, newlines)
         THEN /\ self' = [self EXCEPT !.running = TRUE, !.tap_count = 0,
                                      !.start_time = now]
              /\ pc' = "end_time"
              /\ startup_error' = startup_error
         ELSE /\ self' = self
              /\ pc' = "returned"
              /\ startup_error' = IF raised THEN "bridge" ELSE "device"
  /\ UNCHANGED << args, screen, now, x_coord, y_coord, handler, signals,
                  end_time, current_interval, cycles, adb_cmd, tap, prev_used,
                  failures, last_delay, cancel_cycle, final_count,
                  final_cycle, dur_eval, exit_reason, cursor_hist,
                  stats_count, fn_in, fn_out >>

\* start(), line 267.
SetEndTime ==
  /\ pc = "end_time"
  /\ end_time' = IF args.duration = None THEN None ELSE now + args.duration
  /\ pc' = "while"
  /\ UNCHANGED << args, screen, now, x_coord, y_coord, self, handler, signals,
                  current_interval, cycles, adb_cmd, tap, prev_used, failures,
                  last_delay, cancel_cycle, final_count, final_cycle,
                  dur_eval, exit_reason, cursor_hist, stats_count,
                  startup_error, fn_in, fn_out >>

\* start(), line 282: the loop condition; the model stops a run that would
\* start cycle number cap + 1.
WhileTestUpTo(cap) ==
  /\ pc = "while"
  /\ dur_eval' = NoEval
  /\ IF LoopCondition(self)
       THEN /\ cycles < cap
            /\ pc' = "fetch"
            /\ exit_reason' = exit_reason
       ELSE /\ pc' = "finally"
            /\ exit_reason' = "Cancelled"
  /\ UNCHANGED << args, screen, now, x_coord, y_coord, self, handler, signals,
                  end_time, current_interval, cycles, adb_cmd, tap, prev_used,
                  failures, last_delay, cancel_cycle, final_count,
                  final_cycle, cursor_hist, stats_count, startup_error, fn_in,
                  fn_out >>

\* The loop condition in a run of at most MaxCycles cycles.
WhileTest == WhileTestUpTo(MaxCycles)

\* The cursor values at the start of the last Len(plan) + 1 cycles.
CursorWindow(hist, index, plan) ==
  LET h == Append(hist, index)
  IN IF Len(h) > Len(plan) + 1 THEN Tail(h) ELSE h

\* start(), lines 284-287.
Fetch ==
  /\ pc = "fetch"
  /\ IF self.multi_tap
       THEN LET r == get_next_tap_location(self)
            IN /\ current_interval' = r.rate
               /\ self' = [self EXCEPT !.current_location_index = r.next]
       ELSE /\ current_interval' = self.tap_interval
            /\ self' = self
  /\ cursor_hist' = CursorWindow(cursor_hist, self.current_location_index,
                                  self.tap_locations)
  /\ pc' = "send_tap"
  /\ UNCHANGED << args, screen, now, x_coord, y_coord, handler, signals,
                  end_time, cycles, adb_cmd, tap, prev_used, failures,
                  last_delay, cancel_cycle, final_count, final_cycle,
                  dur_eval, exit_reason, stats_count, startup_error, fn_in,
                  fn_out >>

\* Variant of add_jitter: an upper end one pixel too far.
add_jitter_Wide(s, coord) == {coord + d : d \in (-s.jitter)..(s.jitter + 1)}

\* AutoTapper.add_jitter: the values coord + randint(-jitter, jitter) takes.
add_jitter(s, coord) == {coord + d : d \in (-s.jitter)..s.jitter}

\* start(), line 290, first half: AutoTapper.send_tap up to the launch of
\* "adb shell input tap x y" (lines 184-193).
SendTap ==
  /\ pc = "send_tap"
  /\ LET r == get_next_tap_location(self)
     IN /\ \E x \in add_jitter(self, r.x), y \in add_jitter(self, r.y) :
             adb_cmd' = <<x, y>>
        /\ tap' = [used |-> r.used, base_x |-> r.x, base_y |-> r.y,
                   rate |-> r.rate, ok |-> FALSE, stats |-> FALSE]
        /\ self' = [self EXCEPT !.current_location_index = r.next]
  /\ prev_used' = tap.used
  /\ cycles' = cycles + 1
  /\ pc' = "adb"
  /\ UNCHANGED << args, screen, now, x_coord, y_coord, handler, signals,
                  end_time, current_interval, failures, last_delay,
                  cancel_cycle, final_count, final_cycle, dur_eval,
                  exit_reason, cursor_hist, stats_count, startup_error, fn_in,
                  fn_out >>

\* AutoTapper.send_tap, second half (lines 194-205): the blocking adb call
\* returns, with success or with CalledProcessError.
TapResult ==
  /\ pc = "adb"
  /\ \E ok \in BOOLEAN :
       /\ LET count == CountAfterTap(self.tap_count, ok)
          IN /\ tap' = [tap EXCEPT !.ok = ok,
                                   !.stats = StatsDue(count, ok)]
             /\ self' = [self EXCEPT !.tap_count = count]
             /\ stats_count' = IF StatsDue(count, ok)
                                 THEN stats_count + 1 ELSE stats_count
       /\ failures' = IF ok THEN failures ELSE failures + 1
  /\ adb_cmd' = None
  /\ pc' = "sleep"
  /\ UNCHANGED << args, screen, now, x_coord, y_coord, handler, signals,
                  end_time, current_interval, cycles, prev_used, last_delay,
                  cancel_cycle, final_count, final_cycle, dur_eval,
                  exit_reason, cursor_hist, startup_error, fn_in, fn_out >>

\* start(), line 293.
Sleep ==
  /\ pc = "sleep"
  /\ last_delay' = current_interval
  /\ pc' = "goal_check"
  /\ UNCHANGED << args, screen, now, x_coord, y_coord, self, handler, signals,
                  end_time, current_interval, cycles, adb_cmd, tap, prev_used,
                  failures, cancel_cycle, final_count, final_cycle, dur_eval,
                  exit_reason, cursor_hist, stats_count, startup_error, fn_in,
                  fn_out >>

\* Variant of GoalCheck: the goal branch leaves start() without running the
\* summary (a return in place of the break, with no finally block).
GoalCheck_SkipFinally ==
  /\ pc = "goal_check"
  /\ IF GoalReached(self)
       THEN /\ pc' = "done"
            /\ exit_reason' = "Completed"
       ELSE /\ pc' = "duration_check"
            /\ exit_reason' = exit_reason
  /\ UNCHANGED << args, screen, now, x_coord, y_coord, self, handler, signals,
                  end_time, current_interval, cycles, adb_cmd, tap, prev_used,
                  failures, last_delay, cancel_cycle, final_count,
                  final_cycle, dur_eval, cursor_hist, stats_count,
                  startup_error, fn_in, fn_out >>

\* start(), lines 296-298.
GoalCheck ==
  /\ pc = "goal_check"
  /\ IF GoalReached(self)
       THEN /\ pc' = "finally"
            /\ exit_reason' = "Completed"
       ELSE /\ pc' = "duration_check"
            /\ exit_reason' = exit_reason
  /\ UNCHANGED << args, screen, now, x_coord, y_coord, self, handler, signals,
                  end_time, current_interval, cycles, adb_cmd, tap, prev_used,
                  failures, last_delay, cancel_cycle, final_count,
                  final_cycle, dur_eval, cursor_hist, stats_count,
                  startup_error, fn_in, fn_out >>

\* start(), lines 301-303.
DurationCheck ==
  /\ pc = "duration_check"
  /\ dur_eval' = [at |-> now, expired |-> DurationElapsed(end_time, now)]
  /\ IF DurationElapsed(end_time, now)
       THEN /\ pc' = "finally"
            /\ exit_reason' = "DurationExpired"
       ELSE /\ pc' = "while"
            /\ exit_reason' = exit_reason
  /\ UNCHANGED << args, screen, now, x_coord, y_coord, self, handler, signals,
                  end_time, current_interval, cycles, adb_cmd, tap, prev_used,
                  failures, last_delay, cancel_cycle, final_count,
                  final_cycle, cursor_hist, stats_count, startup_error, fn_in,
                  fn_out >>

\* start(), lines 307-318: the finally block.
Finalize ==
  /\ pc = "finally"
  /\ final_count' = final_count + 1
  /\ final_cycle' = cycles
  /\ pc' = "done"
  /\ UNCHANGED << args, screen, now, x_coord, y_coord, self, handler, signals,
                  end_time, current_interval, cycles, adb_cmd, tap, prev_used,
                  failures, last_delay, cancel_cycle, dur_eval, exit_reason,
                  cursor_hist, stats_count, startup_error, fn_in, fn_out >>

\* signal_handler (lines 373-374) calling AutoTapper.stop (line 322): SIGINT
\* is delivered between two steps of the main thread.
Signal ==
  /\ handler
  /\ pc \notin EndPcs
  /\ signals < MaxSignals
  /\ signals' = signals + 1
  /\ self' = [self EXCEPT !.running = FALSE]
  /\ cancel_cycle' = IF pc \in LoopPcs /\ cancel_cycle = None
                       THEN cycles ELSE cancel_cycle
  /\ UNCHANGED << args, screen, pc, now, x_coord, y_coord, handler, end_time,
                  current_interval, cycles, adb_cmd, tap, prev_used, failures,
                  last_delay, final_count, final_cycle, dur_eval, exit_reason,
                  cursor_hist, stats_count, startup_error, fn_in, fn_out >>

\* The wall clock advances.
Tick ==
  /\ now < MaxClock
  /\ pc \notin EndPcs
  /\ now' = now + 1
  /\ UNCHANGED << args, screen, pc, x_coord, y_coord, self, handler, signals,
                  end_time, current_interval, cycles, adb_cmd, tap, prev_used,
                  failures, last_delay, cancel_cycle, final_count,
                  final_cycle, dur_eval, exit_reason, cursor_hist,
                  stats_count, startup_error, fn_in, fn_out >>

Next ==
  \/ MainCalibrate
  \/ Construct
  \/ InstallHandler
  \/ StartCheck
  \/ SetEndTime
  \/ WhileTest
  \/ Fetch
  \/ SendTap
  \/ TapResult
  \/ Sleep
  \/ GoalCheck
  \/ DurationCheck
  \/ Finalize
  \/ Signal
  \/ Tick

Spec == Init /\ [][Next]_vars

\* ---------------------------------------------------------------- LongSpec
\* Long runs of the same program: one pinned coordinate or both, no jitter,
\* no duration, no SIGINT, a frozen clock, and at most MaxLongFailures
\* failed taps in at most MaxLongCycles cycles.
LongInit ==
  InitWith([x : {500}, y : YArgs, interval : {80}, jitter : {0},
            duration : {None}, total_taps : {None, 201},
            single_point : BOOLEAN, karaa : {TRUE}])

LongWhileTest == WhileTestUpTo(MaxLongCycles)

LongTapResult == TapResult /\ failures' <= MaxLongFailures

LongNext ==
  \/ MainCalibrate
  \/ Construct
  \/ InstallHandler
  \/ StartCheck
  \/ SetEndTime
  \/ LongWhileTest
  \/ Fetch
  \/ SendTap
  \/ LongTapResult
  \/ Sleep
  \/ GoalCheck
  \/ DurationCheck
  \/ Finalize

LongSpec == LongInit /\ [][LongNext]_vars

\* ------------------------------------------------------------------ FnSpec
\* The pure functions applied to inputs drawn from bounded sets; the
\* program itself stays in its initial state.
\* Resolutions generate_tap_locations is applied to.
PlanResolutions == {<<720, 1080>>, <<1080, 1920>>}

\* Arguments of display_stats: tap_count is a multiple of 200 when
\* send_tap calls it; total_taps and elapsed put the estimate on, just
\* below and just above the bucket limits.
StatsTapCounts == {200, 400}
StatsTotalTaps == {None, 100, 300, 501, 3799, 3800, 3801, 5600, 86600, 86601,
                   90200}
StatsElapsed == {0, 200, 300}

FnInit ==
  InitWith([x : {None}, y : {None}, interval : {80}, jitter : {0},
            duration : {None}, total_taps : {None}, single_point : {FALSE},
            karaa : {TRUE}])

FnUnchanged ==
  UNCHANGED << args, screen, pc, now, x_coord, y_coord, self, handler,
               signals, end_time, current_interval, cycles, adb_cmd, tap,
               prev_used, failures, last_delay, cancel_cycle, final_count,
               final_cycle, dur_eval, exit_reason, cursor_hist, stats_count,
               startup_error >>

ApplyGenerate ==
  /\ \E res \in PlanResolutions, infill \in [1..4 -> InfillSamples],
        shuffle_k \in ShuffleChoices :
       /\ fn_in' = [op |-> "generate_tap_locations", width |-> res[1],
                    height |-> res[2], infill |-> infill,
                    shuffle_k |-> shuffle_k]
       /\ fn_out' = generate_tap_locations(res[1], res[2], infill, shuffle_k)
  /\ FnUnchanged

ApplyDisplayStats ==
  /\ \E tap_count \in StatsTapCounts, total_taps \in StatsTotalTaps,
        elapsed \in StatsElapsed :
       /\ fn_in' = [op |-> "display_stats", tap_count |-> tap_count,
                    total_taps |-> total_taps, elapsed |-> elapsed]
       /\ fn_out' = display_stats(tap_count, total_taps, elapsed)
  /\ FnUnchanged

FnNext ==
  \/ ApplyGenerate
  \/ ApplyDisplayStats

FnSpec == FnInit /\ [][FnNext]_vars

\* ----------------------------------------------------------------- claims
\* The run has a goal G >= 1 (total_taps is set and not 0).
HasGoal == Truthy(self.total_taps)

\* The loop of start() has been left.
LoopLeft == pc \in {"finally", "done"}

\* C1 (as stated): in every dispatch cycle tap_count increases by exactly 1,
\* whether the adb tap of that cycle succeeded or failed.
C1_EveryCycleCounts ==
  [][(pc = "adb" /\ pc' = "sleep") => self'.tap_count = self.tap_count + 1]_vars

\* C1 (amended): across the dispatch cycles of a run tap_count never
\* decreases; a cycle whose adb tap succeeded increases it by exactly 1, a
\* cycle whose adb tap failed leaves it unchanged, and no other step of the
\* loop changes it.
C1_SuccessfulTapsCount ==
  [][(pc \in LoopPcs) =>
       /\ self'.tap_count >= self.tap_count
       /\ (pc = "adb" /\ pc' = "sleep") =>
            self'.tap_count = self.tap_count + (IF tap'.ok THEN 1 ELSE 0)
       /\ (pc' = pc \/ pc # "adb") => self'.tap_count = self.tap_count]_vars

\* C1 witness: two cycles done, one tap succeeded and one failed.
C1_Witness ==
  pc = "sleep" /\ cycles = 2 /\ failures = 1 /\ ~tap.ok /\ self.tap_count = 1

\* C2 (as stated): in multi-point mode with a plan of length N >= 1 the taps
\* of consecutive cycles originate from consecutive plan entries.
C2_ConsecutiveEntries ==
  (self.multi_tap /\ Len(self.tap_locations) >= 1 /\ cycles >= 2) =>
     tap.used = (prev_used + 1) % Len(self.tap_locations)

\* C3 (as stated): the delay slept after the tap of a cycle is the interval
\* of the point whose coordinates were tapped in that cycle.
C3_DelayOfTappedPoint ==
  pc = "goal_check" => last_delay = tap.rate

\* C4 (as stated): whenever the run is in multi-point mode, the plan the
\* scheduler consults is non-empty.
C4_PlanNonEmpty ==
  (pc \in LoopPcs /\ self.multi_tap) => self.tap_locations # << >>

\* C5: with a goal G >= 1, no duration, no SIGINT and no failed tap, the loop
\* never dispatches more than G taps, goes round again only while fewer than
\* G taps were dispatched, and is left only as Completed with
\* tap_count = G after exactly G taps (100 percent).
C5_GoalCompletion ==
  (HasGoal /\ args.duration = None /\ signals = 0 /\ failures = 0) =>
     /\ cycles <= self.total_taps
     /\ pc \in {"fetch", "send_tap"} => cycles < self.total_taps
     /\ LoopLeft => /\ exit_reason = "Completed"
                    /\ cycles = self.total_taps
                    /\ self.tap_count = self.total_taps
                    /\ (self.tap_count * 100) \div self.total_taps = 100

\* C5 witness: a run with goal 2 that finished after two successful taps.
C5_Witness ==
  /\ pc = "done" /\ self.total_taps = 2 /\ args.duration = None
  /\ signals = 0 /\ failures = 0 /\ cycles = 2

\* C6: when check_adb_connection returns False, start() returns at once: the
\* running flag was never set, no start time was taken, tap_count is still
\* 0, no tap was dispatched and no summary was printed.
C6_NoRunWithoutDevice ==
  pc = "returned" =>
     /\ ~self.running
     /\ self.start_time = None
     /\ self.tap_count = 0
     /\ cycles = 0 /\ adb_cmd = None /\ tap = NoTap
     /\ final_count = 0 /\ exit_reason = "none"

\* C6 witness: start() returned on a failed device check although a plan
\* was ready.
C6_Witness ==
  pc = "returned" /\ handler /\ self.tap_locations # << >>

\* C7: once SIGINT has hit the running loop, at most one further tap is
\* dispatched, the flag stays down, and the next evaluation of the loop
\* condition leaves the loop.
C7_BoundedCancellation ==
  /\ [](cancel_cycle # None =>
          /\ cycles <= cancel_cycle + 1
          /\ (pc \in LoopPcs => ~self.running))
  /\ [][(cancel_cycle # None /\ pc = "while" /\ pc' # pc)
          => pc' = "finally"]_vars

\* C7 witness: SIGINT arrived before the tap of a cycle, that one tap was
\* still dispatched, and the loop was then left at the loop condition.
C7_Witness ==
  /\ pc = "done" /\ cancel_cycle # None /\ cycles = cancel_cycle + 1
  /\ exit_reason = "Cancelled"

\* C8 (as stated): when SIGINT hit the running loop, the loop is left as
\* Cancelled, never as Completed or DurationExpired.
C8_AlwaysCancelled ==
  (LoopLeft /\ cancel_cycle # None) => exit_reason = "Cancelled"

\* C8 (amended): when SIGINT hit the running loop, the loop is left as
\* Completed if the goal is reached at the end of the cycle the signal
\* arrived in, else as DurationExpired if the duration has elapsed at that
\* point, and as Cancelled otherwise.
C8_CancelledUnlessStopped ==
  (LoopLeft /\ cancel_cycle # None) =>
     exit_reason =
       IF HasGoal /\ self.tap_count >= self.total_taps THEN "Completed"
       ELSE IF dur_eval.at # None /\ end_time # None /\ dur_eval.at >= end_time
         THEN "DurationExpired"
       ELSE "Cancelled"

\* C8 witness: SIGINT arrived during the cycle whose tap reached the goal,
\* and the run ended as Completed.
C8_Witness ==
  pc = "done" /\ cancel_cycle # None /\ exit_reason = "Completed"

\* C9: a run that entered the loop runs the finally block exactly once,
\* after its last tap and in each of the three ways of leaving the loop;
\* nothing is dispatched afterwards and the loop is not entered again.
C9_FinalizeOnce ==
  /\ final_count <= 1
  /\ pc \in LoopPcs \cup {"finally"} => final_count = 0
  /\ final_count = 1 => pc = "done"
  /\ LoopLeft => exit_reason \in {"Completed", "DurationExpired", "Cancelled"}
  /\ (self.start_time # None /\ pc \in EndPcs) =>
        /\ pc = "done"
        /\ final_count = 1
        /\ final_cycle = cycles
        /\ adb_cmd = None

\* C9 witness: a run that tapped, ran out of time and printed its summary.
C9_Witness ==
  /\ pc = "done" /\ final_count = 1 /\ cycles >= 1
  /\ exit_reason = "DurationExpired"

\* C10 (as stated): with a duration D set, an end-of-cycle evaluation of the
\* duration condition stops the run exactly when now >= start_time + D.
C10_ExpiresAtStartPlusD ==
  (args.duration # None /\ dur_eval.at # None) =>
     (dur_eval.expired <=> dur_eval.at >= self.start_time + args.duration)

\* C10 (amended): with a duration D set, an end-of-cycle evaluation of the
\* duration condition stops the run, as DurationExpired, exactly when
\* now >= end_time, where end_time is D plus the clock value read right
\* after start_time was taken, so that end_time >= start_time + D; the run
\* is therefore never stopped at an evaluation with now < start_time + D.
C10_ExpiresAtEndTime ==
  (args.duration # None /\ dur_eval.at # None) =>
     /\ end_time >= self.start_time + args.duration
     /\ dur_eval.expired <=> dur_eval.at >= end_time
     /\ dur_eval.expired =>
          (LoopLeft /\ exit_reason = "DurationExpired")
     /\ ~dur_eval.expired => pc = "while"
     /\ dur_eval.at < self.start_time + args.duration => ~dur_eval.expired

\* C10 witness: a run with D = 1 whose first evaluation came too early to
\* stop it and whose second evaluation stopped it.
C10_Witness ==
  /\ pc = "done" /\ args.duration = 1 /\ cycles = 2
  /\ dur_eval.expired /\ exit_reason = "DurationExpired"

\* The run is in multi-point mode with a plan to cycle through.
HasPlan == self.multi_tap /\ self.tap_locations # << >>

\* C11: in multi-point mode the cursor always lies in 0..len(plan)-1, and
\* the cursor at the start of a cycle is the cursor len(plan) cycles
\* earlier, whatever index that was.
C11_CursorCyclic ==
  HasPlan =>
    /\ self.current_location_index \in 0..(Len(self.tap_locations) - 1)
    /\ \A i \in 1..Len(cursor_hist) :
          cursor_hist[i] \in 0..(Len(self.tap_locations) - 1)
    /\ Len(cursor_hist) = Len(self.tap_locations) + 1 =>
          cursor_hist[Len(cursor_hist)] = cursor_hist[1]

\* C11 witness: ten cycle starts on the nine-point plan, the first and the
\* last of them at index 5.
C11_Witness ==
  /\ HasPlan /\ Len(self.tap_locations) = 9 /\ Len(cursor_hist) = 10
  /\ cursor_hist[1] = 5 /\ cursor_hist[10] = 5

\* C12: while a tap command is in flight, each of its coordinates lies
\* within jitter pixels of the coordinate of the point send_tap selected,
\* on both axes and for every jitter >= 0.
C12_JitterBounded ==
  pc = "adb" =>
    /\ self.jitter >= 0
    /\ adb_cmd[1] >= tap.base_x - self.jitter
    /\ adb_cmd[1] <= tap.base_x + self.jitter
    /\ adb_cmd[2] >= tap.base_y - self.jitter
    /\ adb_cmd[2] <= tap.base_y + self.jitter

\* C12 witness: a tap of a plan point sent with jitter 1, at the upper end
\* on the x axis and at the lower end on the y axis.
C12_Witness ==
  /\ pc = "adb" /\ HasPlan /\ self.jitter = 1
  /\ adb_cmd[1] = tap.base_x + 1
  /\ adb_cmd[2] = tap.base_y - 1

\* C13 (as stated): the ring-based plan generate_tap_locations builds has
\* exactly 45 points.
C13_FortyFivePoints ==
  fn_in.op = "generate_tap_locations" => Len(fn_out) = 45

\* C14: display_stats never reports negative remaining taps, and formats
\* the estimate eta = n / d seconds by floor division in three buckets:
\* eta > 86400 as days and hours, otherwise eta > 3600 as hours and
\* minutes, otherwise as minutes and seconds; 100 s is "1m 40s", 5400 s is
\* "1h 30m" and 90000 s is "1d 1h".
C14_EtaFormat ==
  (fn_in.op = "display_stats" /\ fn_in.total_taps # None) =>
    LET n == (IF fn_in.total_taps > fn_in.tap_count
                THEN fn_in.total_taps - fn_in.tap_count ELSE 0)
             * fn_in.elapsed
        d == fn_in.tap_count
        t == fn_out.time_str
    IN /\ fn_out.remaining >= 0
       /\ fn_out.remaining * fn_in.elapsed = n
       /\ fn_in.elapsed = 0 => t = NoTimeStr
       /\ fn_in.elapsed > 0 =>
            /\ t.a >= 0 /\ t.b >= 0
            /\ n > 86400 * d =>
                 /\ t.ua = "d" /\ t.ub = "h" /\ t.b < 24
                 /\ (t.a * 86400 + t.b * 3600) * d <= n
                 /\ n < (t.a * 86400 + (t.b + 1) * 3600) * d
            /\ (n <= 86400 * d /\ n > 3600 * d) =>
                 /\ t.ua = "h" /\ t.ub = "m" /\ t.b < 60
                 /\ (t.a * 3600 + t.b * 60) * d <= n
                 /\ n < (t.a * 3600 + (t.b + 1) * 60) * d
            /\ n <= 3600 * d =>
                 /\ t.ua = "m" /\ t.ub = "s" /\ t.b < 60
                 /\ (t.a * 60 + t.b) * d <= n
                 /\ n < (t.a * 60 + t.b + 1) * d
            /\ n = 100 * d => t = TimeStr(1, "m", 40, "s")
            /\ n = 5400 * d => t = TimeStr(1, "h", 30, "m")
            /\ n = 90000 * d => t = TimeStr(1, "d", 1, "h")

\* C14 witness: an estimate of 90000 seconds formatted as "1d 1h".
C14_Witness ==
  /\ fn_in.op = "display_stats"
  /\ fn_in.tap_count = 200 /\ fn_in.total_taps = 90200
  /\ fn_in.elapsed = 200
  /\ fn_out = [remaining |-> 90000, time_str |-> TimeStr(1, "d", 1, "h")]

\* C15: a cycle emits a statistics snapshot exactly when its tap succeeded
\* and the increment brought tap_count to a positive multiple of 200, so
\* the run has emitted one snapshot per multiple of 200 reached.
C15_SnapshotEvery200 ==
  /\ stats_count = self.tap_count \div 200
  /\ pc = "sleep" =>
       (tap.stats <=>
          (tap.ok /\ self.tap_count > 0 /\ self.tap_count % 200 = 0))

\* C15 witness: the 200th tap emitted the snapshot and the next cycle, whose
\* tap failed with tap_count still 200, emitted none.
C15_Witness ==
  /\ pc = "sleep" /\ self.tap_count = 200 /\ cycles = 201
  /\ ~tap.ok /\ ~tap.stats /\ stats_count = 1

\* C16 (as stated): when a fatal startup error has been reported, no plan
\* was built and no tap was sent.
C16_ErrorBeforePlan ==
  startup_error # "none" => (self.tap_locations = << >> /\ cycles = 0)

\* C16 (amended): a fatal startup error ends the process before any tap is
\* sent; a failed resolution query ends it before a plan is built, while a
\* failed device check is reported by start(), after the constructor has
\* built whatever plan the run would have used.
C16_ErrorBeforeTap ==
  startup_error # "none" =>
    /\ pc \in EndPcs
    /\ cycles = 0 /\ tap = NoTap /\ ~self.running /\ final_count = 0
    /\ startup_error = "resolution" =>
         (pc = "exited" /\ self.tap_locations = << >>)
    /\ startup_error \in {"bridge", "device"} => pc = "returned"

\* C16 witness: the device check failed after the constructor had built
\* the nine-point plan.
C16_Witness ==
  /\ startup_error = "device" /\ Len(self.tap_locations) = 9
  /\ cycles = 0

\* C17: with a goal G >= 1, tap_count never exceeds G, so the percentage
\* the summary reports never exceeds 100.
C17_CountWithinGoal ==
  (self.total_taps # None /\ self.total_taps >= 1) =>
    /\ self.tap_count <= self.total_taps
    /\ (self.tap_count * 100) \div self.total_taps <= 100

\* C17 witness: a run with a goal and a duration that reached its goal
\* although one tap failed.
C17_Witness ==
  /\ pc = "done" /\ HasGoal /\ args.duration = 1 /\ failures = 1
  /\ self.tap_count = self.total_taps

\* The command line names a coordinate.
Pinned == args.x # None \/ args.y # None

\* C18 (as stated): the nine-point plan is used only when the caller pins a
\* coordinate; a plan built from the queried resolution without one is the
\* full ring layout.
C18_NinePointOnlyWhenPinned ==
  pc \notin {"main", "construct"} =>
    /\ Len(self.tap_locations) = 9 => Pinned
    /\ (~Pinned /\ self.tap_locations # << >>) =>
         Len(self.tap_locations) > 9

\* C19 (as stated): with a goal G >= 1, no duration and no SIGINT, the run
\* dispatches at most G cycles, whatever taps fail.
C19_AtMostGCycles ==
  (HasGoal /\ args.duration = None /\ signals = 0) =>
    cycles <= self.total_taps

\* C19 (amended): with a goal G >= 1, no duration and no SIGINT, the run
\* ends exactly when G taps have succeeded: after F failed taps it has run
\* at most G + F cycles, it starts another cycle only while fewer than G
\* taps succeeded, and it leaves the loop only as Completed, after exactly
\* G + F cycles.
C19_AtMostGSuccesses ==
  (HasGoal /\ args.duration = None /\ signals = 0) =>
    /\ cycles <= self.total_taps + failures
    /\ pc # "adb" => self.tap_count + failures = cycles
    /\ pc \in {"fetch", "send_tap", "adb"} =>
         self.tap_count < self.total_taps
    /\ LoopLeft => /\ exit_reason = "Completed"
                   /\ self.tap_count = self.total_taps
                   /\ cycles = self.total_taps + failures

\* C19 witness: a run with goal 2 that needed three cycles because one tap
\* failed.
C19_Witness ==
  /\ pc = "done" /\ self.total_taps = 2 /\ args.duration = None
  /\ signals = 0 /\ failures = 1 /\ cycles = 3

\* C20 (as stated): a SIGINT delivered at any moment after the handler was
\* installed is not lost: from then on the loop finds the running flag down.
C20_RequestKept ==
  (signals > 0 /\ pc \in LoopPcs) => ~self.running

====
